---------------------------- MODULE Spec2Model ----------------------------
(***************************************************************************)
(* A model of the two variants of the Spark_Everlasting scene renderer:    *)
(* "continuous" is src/Hierarchical Objects - Copy/main.js (sinusoidal     *)
(* limb swing, orbiting camera) and "phase" is src/unnamed/part_000 (the   *)
(* three-phase figure).  Both share the matrix stack, the starfield and    *)
(* the frame driver.                                                       *)
(*                                                                         *)
(* Units.  Lengths, angles (degrees), colours, scale factors and sines are *)
(* fixed-point numbers in thousandths (1.3 is 1300).  Rotation axes are    *)
(* kept as the integers written in the source.  Timestamps are in          *)
(* milliseconds and are multiples of one second, so that                   *)
(* dt = (timestamp - prevTime) / 1000.0 is a whole number of seconds and   *)
(* every product velocity * dt is exact.  A draw of Math.random() is a     *)
(* number of hundredths taken from Draws.                                  *)
(*                                                                         *)
(* JavaScript objects.  A 4x4 matrix is an object on the heap; the globals *)
(* modelMatrix and the entries of MS hold references (positive numbers     *)
(* into heap), and the reference 0 is the value undefined.  The value of a *)
(* matrix is the sequence of elementary transforms multiplied into the     *)
(* identity, so two matrices with equal values are equal entry by entry.   *)
(***************************************************************************)
EXTENDS Integers, Sequences, FiniteSets, TLC

VARIABLES
    variant,          \* which of the two programs runs
    loaded,           \* window.onload has run
    now,              \* the platform clock, ms since the time origin
    queue,            \* frame requests waiting for the next display refresh
    batch,            \* callbacks of the current refresh still to be invoked
    animFlag, resetTimerFlag, prevTime, dt,
    MS, modelMatrix, heap, thrown, \* matrix stack, current matrix, uncaught TypeError
    eye, viewMatrix, modelViewMatrix, diffuseProduct,
    cameraAngle, stars, ballerina,
    log,              \* history: the calls of the last render, each with what it found
    saved,            \* history: what each entry of MS looked like when pushed
    lastCall,         \* history: the last call made by a harness
    lastArg,          \* history: the arguments of that call and the object it found
    twin,             \* a second figure, updated by the figure-clock harness only
    elapsed,          \* history: the dt each of the two figures has been given in total
    onTime            \* history: the clock at the last click that enabled animation

schedVars == <<loaded, now, queue, batch>>
timeVars == <<animFlag, resetTimerFlag, prevTime, dt>>
gfxVars == <<MS, modelMatrix, heap, thrown, viewMatrix, modelViewMatrix, diffuseProduct, log>>
entityVars == <<eye, cameraAngle, stars, ballerina>>
harnessVars == <<lastArg, twin, elapsed>>
histVars == <<saved, lastCall, onTime, harnessVars>>
vars == <<variant, schedVars, timeVars, gfxVars, entityVars, histVars>>

---------------------------------------------------------------------------
(* Bounds of the model. *)

\* The source creates 50 stars; the model is checked with a pool of this size.
NumStars == 1
\* The platform clock stops after this many seconds.
MaxSeconds == 3
\* At most this many frame requests wait for one display refresh.
MaxQueue == 2
\* The figure-clock harness gives a figure at most this many seconds in total.
MaxElapsed == 9
\* Bounds of the transform-stack harness: stack depth and transforms per matrix.
MaxDepth == 2
MaxLen == 3

\* const numStars = 50
numStars == 50

\* Outcomes of Math.random(), in hundredths: one below 0.5 and one not.
Draws == {0, 50}
\* Outcomes tried for the four draws of a star's construction.
ResetDraws == {<<0, 50, 0, 50>>, <<99, 0, 99, 99>>}
\* Seconds between two display refreshes.
Gaps == {1, 2}

---------------------------------------------------------------------------
(* Arithmetic. *)

Mul(a, b) == (a * b) \div 1000

Max(a, b) == IF a >= b THEN a ELSE b

MaxOf(S) == CHOOSE n \in S : \A k \in S : k <= n

Range(s) == {s[i] : i \in 1..Len(s)}

Front(s) == SubSeq(s, 1, Len(s) - 1)

\* 1000 * sin(k / 2) and 1000 * cos(k / 2), rounded, for k = 0 .. 255.
SinTable ==
   << 0, 479, 841, 997, 909, 598, 141, -351, -757, -978, -959, -706,
      -279, 215, 657, 938, 989, 798, 412, -75, -544, -880, -1000, -875,
      -537, -66, 420, 804, 991, 935, 650, 206, -288, -712, -961, -976,
      -751, -342, 150, 606, 913, 997, 837, 472, -9, -487, -846, -998,
      -906, -591, -132, 359, 763, 979, 956, 699, 271, -224, -664, -941,
      -988, -793, -404, 84, 551, 884, 1000, 871, 529, 57, -428, -809,
      -992, -932, -644, -198, 296, 718, 964, 974, 745, 334, -159, -613,
      -917, -996, -832, -464, 18, 495, 851, 999, 902, 584, 124, -367,
      -768, -981, -954, -693, -262, 232, 670, 944, 987, 788, 396, -93,
      -559, -888, -1000, -867, -522, -49, 436, 814, 993, 928, 637, 189,
      -305, -724, -966, -972, -739, -326, 167, 620, 920, 995, 827, 456,
      -27, -503, -856, -999, -898, -577, -115, 376, 774, 983, 951, 686,
      254, -241, -677, -947, -985, -782, -388, 102, 566, 892, 1000, 862,
      514, 40, -444, -819, -994, -925, -630, -180, 313, 730, 968, 969,
      733, 317, -176, -626, -923, -994, -822, -448, 35, 510, 860, 999,
      894, 570, 106, -384, -779, -984, -948, -680, -245, 250, 683, 950,
      984, 777, 380, -110, -573, -896, -999, -858, -506, -31, 452, 824,
      995, 922, 623, 172, -322, -736, -971, -967, -727, -309, 185, 633,
      927, 993, 817, 440, -44, -518, -865, -1000, -890, -562, -97, 392,
      785, 986, 945, 673, 237, -258, -690, -952, -982, -771, -371, 119,
      581, 900, 999, 853, 499, 22, -460, -829, -996, -918, -616, -163,
      330, 742, 973, 965 >>

CosTable ==
   << 1000, 878, 540, 71, -416, -801, -990, -936, -654, -211, 284, 709,
      960, 977, 754, 347, -146, -602, -911, -997, -839, -476, 4, 483,
      844, 998, 907, 595, 137, -355, -760, -978, -958, -702, -275, 219,
      660, 940, 989, 796, 408, -80, -548, -882, -1000, -873, -533, -62,
      424, 806, 991, 933, 647, 202, -292, -715, -963, -975, -748, -338,
      154, 609, 915, 996, 834, 468, -13, -491, -849, -998, -904, -588,
      -128, 363, 765, 980, 955, 696, 267, -228, -667, -943, -987, -790,
      -400, 88, 555, 886, 1000, 869, 525, 53, -432, -812, -992, -930,
      -640, -193, 301, 721, 965, 973, 742, 330, -163, -616, -918, -996,
      -829, -460, 22, 499, 853, 999, 900, 581, 119, -371, -771, -982,
      -952, -690, -258, 237, 674, 945, 986, 785, 392, -97, -562, -890,
      -1000, -865, -518, -44, 440, 817, 993, 927, 633, 185, -309, -727,
      -967, -971, -736, -322, 172, 623, 922, 995, 824, 452, -31, -506,
      -858, -999, -896, -573, -110, 380, 777, 984, 950, 683, 250, -245,
      -680, -948, -984, -779, -384, 106, 570, 894, 999, 860, 510, 35,
      -448, -822, -994, -923, -626, -176, 317, 733, 969, 968, 730, 313,
      -180, -630, -925, -994, -819, -444, 40, 514, 862, 1000, 892, 566,
      102, -388, -782, -985, -947, -677, -241, 254, 686, 951, 983, 774,
      376, -115, -577, -898, -999, -856, -503, -27, 456, 827, 995, 920,
      620, 167, -326, -739, -972, -966, -724, -305, 189, 637, 928, 993,
      814, 436, -49, -522, -867, -1000, -888, -559, -93, 396, 788, 987,
      944, 670, 232, -262 >>

\* Math.sin and Math.cos of an angle given in thousandths of a radian (a multiple of 500).
Sin(a) == SinTable[(a \div 500) + 1]

Cos(a) == CosTable[(a \div 500) + 1]

---------------------------------------------------------------------------
(* MV.js: matrices as values. *)

mat4 == <<>>

translate(v) == <<[op |-> "T", a |-> v]>>

rotate(theta, axis) == <<[op |-> "R", a |-> <<theta>> \o axis]>>

scale(sx, sy, sz) == <<[op |-> "S", a |-> <<sx, sy, sz>>]>>

mult(u, v) == u \o v

lookAt(e, a, u) == <<"lookAt", e, a, u>>

vec3(x, y, z) == <<x, y, z>>

vec4(x, y, z, w) == <<x, y, z, w>>

at == IF variant = "continuous" THEN vec3(0, 1000, 0) ELSE vec3(0, 0, 0)

up == vec3(0, 1000, 0)

---------------------------------------------------------------------------
(* The graphics globals as one record, and the heap of matrix objects. *)

G == [MS |-> MS, modelMatrix |-> modelMatrix, heap |-> heap, thrown |-> thrown,
      viewMatrix |-> viewMatrix, modelViewMatrix |-> modelViewMatrix,
      diffuseProduct |-> diffuseProduct, log |-> log]

SetG(g) ==
    /\ MS' = g.MS
    /\ modelMatrix' = g.modelMatrix
    /\ heap' = g.heap
    /\ thrown' = g.thrown
    /\ viewMatrix' = g.viewMatrix
    /\ modelViewMatrix' = g.modelViewMatrix
    /\ diffuseProduct' = g.diffuseProduct
    /\ log' = g.log

\* The objects still referenced by a global.
Live(g) == (Range(g.MS) \cup {g.modelMatrix}) \ {0}

\* Unreferenced objects are collected.
Collect(g) ==
    LET live == Live(g)
        top == MaxOf(live \cup {0})
    IN  [g EXCEPT !.heap = [i \in 1..top |-> IF i \in live THEN g.heap[i] ELSE mat4]]

\* modelMatrix = <a newly created matrix of value v>.
NewModelMatrix(g, v) ==
    LET r == CHOOSE n \in 1..(Len(g.heap) + 1) :
                 /\ n \notin Live(g)
                 /\ \A k \in 1..(n - 1) : k \in Live(g)
        h == IF r > Len(g.heap) THEN Append(g.heap, v) ELSE [g.heap EXCEPT ![r] = v]
    IN  Collect([g EXCEPT !.heap = h, !.modelMatrix = r])

\* What a reference denotes: undefined, or the matrix's value.
Value(g, r) == IF r = 0 THEN <<"undefined">> ELSE <<"mat4", g.heap[r]>>

Values(g) == [i \in 1..Len(g.MS) |-> Value(g, g.MS[i])]

\* Reading a property of undefined raises a TypeError the program never catches.
Throw(g) == [g EXCEPT !.thrown = TRUE]

---------------------------------------------------------------------------
(* Transformation helpers and matrix stack operations. *)

\* A version that multiplies into the existing matrix object.
MultModelInPlace(g, m) ==
    IF g.modelMatrix = 0
    THEN Throw(g)
    ELSE [g EXCEPT !.heap[g.modelMatrix] = mult(@, m)]

\* modelMatrix = mult(modelMatrix, m)
MultModel(g, m) ==
    IF g.modelMatrix = 0
    THEN Throw(g)
    ELSE NewModelMatrix(g, mult(g.heap[g.modelMatrix], m))

gTranslate(g, x, y, z) == MultModel(g, translate(<<x, y, z>>))

gRotate(g, theta, x, y, z) == MultModel(g, rotate(theta, <<x, y, z>>))

gScale(g, sx, sy, sz) == MultModel(g, scale(sx, sy, sz))

gPush(g) == [g EXCEPT !.MS = Append(@, g.modelMatrix)]

\* A pop that restores the matrix and leaves its entry on the stack.
gPopKeep(g) ==
    IF g.MS = <<>>
    THEN Collect([g EXCEPT !.modelMatrix = 0])
    ELSE Collect([g EXCEPT !.modelMatrix = g.MS[Len(g.MS)]])

\* Array.prototype.pop returns undefined for an empty array.
gPop(g) ==
    IF g.MS = <<>>
    THEN Collect([g EXCEPT !.modelMatrix = 0])
    ELSE Collect([g EXCEPT !.modelMatrix = g.MS[Len(g.MS)], !.MS = Front(g.MS)])

\* MS = []; modelMatrix = mat4();
ResetStack(g) == NewModelMatrix([g EXCEPT !.MS = <<>>, !.modelMatrix = 0], mat4)

\* modelViewMatrix = mult(viewMatrix, modelMatrix), uploaded with its normal matrix.
setMV(g) ==
    IF g.modelMatrix = 0
    THEN Throw(g)
    ELSE [g EXCEPT !.modelViewMatrix = <<"mv", g.viewMatrix, g.heap[g.modelMatrix]>>]

setAllMatrices(g) == setMV(g)

\* The products sent to the shader; lightDiffuse is white, so diffuseProduct is c.
setColor(g, c) == [g EXCEPT !.diffuseProduct = c]

\* A draw helper that relies on the matrices uploaded earlier.
drawPrimitiveCached(g, kind) == g

\* drawCube, drawSphere, drawCylinder, drawCone: setMV(), then the primitive's draw,
\* which reads the uniforms just uploaded.
drawPrimitive(g, kind) == setMV(g)

---------------------------------------------------------------------------
(* Calls issued by the entities, as instructions. *)

Push == [op |-> "gPush", a |-> <<>>]

Pop == [op |-> "gPop", a |-> <<>>]

Tr(x, y, z) == [op |-> "gTranslate", a |-> <<x, y, z>>]

Ro(theta, x, y, z) == [op |-> "gRotate", a |-> <<theta, x, y, z>>]

Sc(sx, sy, sz) == [op |-> "gScale", a |-> <<sx, sy, sz>>]

Color(c) == [op |-> "setColor", a |-> c]

Sphere == [op |-> "drawSphere", a |-> <<>>]

Cube == [op |-> "drawCube", a |-> <<>>]

Cone == [op |-> "drawCone", a |-> <<>>]

\* The statements of render that rebuild the matrices, as instructions:
\* MS = []; modelMatrix = mat4(); viewMatrix = lookAt(eye, at, up); setAllMatrices();
Reset(e) == [op |-> "reset", a |-> e]

\* viewMatrix = lookAt(eye, at, up); projectionMatrix = ortho(...); setAllMatrices();
Camera(e) == [op |-> "camera", a |-> e]

\* The effect of one instruction on the graphics globals.
Apply(g, ins) ==
    CASE ins.op = "gPush" -> gPush(g)
      [] ins.op = "gPop" -> gPop(g)
      [] ins.op = "gTranslate" -> gTranslate(g, ins.a[1], ins.a[2], ins.a[3])
      [] ins.op = "gRotate" -> gRotate(g, ins.a[1], ins.a[2], ins.a[3], ins.a[4])
      [] ins.op = "gScale" -> gScale(g, ins.a[1], ins.a[2], ins.a[3])
      [] ins.op = "setColor" -> setColor(g, ins.a)
      [] ins.op = "drawSphere" -> drawPrimitive(g, "sphere")
      [] ins.op = "drawCube" -> drawPrimitive(g, "cube")
      [] ins.op = "drawCone" -> drawPrimitive(g, "cone")
      [] ins.op = "reset" ->
            setAllMatrices([ResetStack(g) EXCEPT !.viewMatrix = lookAt(ins.a, at, up)])
      [] ins.op = "camera" ->
            setAllMatrices([g EXCEPT !.viewMatrix = lookAt(ins.a, at, up)])

\* History: what an instruction finds when it starts (g), and the model-view matrix
\* the shader holds when it ends (h).
Observe(g, h, ins) ==
    [call |-> ins, depth |-> Len(g.MS), model |-> Value(g, g.modelMatrix),
     view |-> g.viewMatrix, sent |-> h.modelViewMatrix]

\* The globals h an instruction leaves, with the instruction recorded in the log.
Logged(g, h, ins) == [h EXCEPT !.log = Append(g.log, Observe(g, h, ins))]

\* One instruction, recorded in the log of the render.
Exec(g, ins) == Logged(g, Apply(g, ins), ins)

RECURSIVE RunFrom(_, _, _)
\* The instructions of prog from the i-th on, in order; an uncaught exception ends the run.
RunFrom(g, prog, i) ==
    IF i > Len(prog) \/ g.thrown THEN g ELSE RunFrom(Exec(g, prog[i]), prog, i + 1)

Run(g, prog) == RunFrom(g, prog, 1)

---------------------------------------------------------------------------
(* Starfield. *)

\* A reset that draws the scale between 0.05 and 0.15.
StarResetLarge(r1, r2, r3, r4) ==
    [x |-> -6000 + r1 * 120,
     y |-> -6000 + r2 * 120,
     velocity |-> 500 + r3 * 2,
     scale |-> 50 + r4]

\* Star.reset with the four draws it makes.
StarReset(r1, r2, r3, r4) ==
    [x |-> -6000 + r1 * 120,
     y |-> -6000 + r2 * 120,
     velocity |-> 500 + r3 * 2,
     scale |-> 20 + (r4 * 30) \div 100]

\* An update whose respawn is a full reset.
StarUpdateFullReset(s, d, r1, r2) ==
    LET moved == [s EXCEPT !.x = @ + s.velocity * d, !.y = @ + s.velocity * d]
    IN  IF moved.x > 10000 \/ moved.y > 10000
        THEN StarReset(r1, r2, r1, r2)
        ELSE moved

\* An update that tests the bounds before it moves the star.
StarUpdateCheckFirst(s, d, r1, r2) ==
    LET moved == [s EXCEPT !.x = @ + s.velocity * d, !.y = @ + s.velocity * d]
    IN  IF s.x > 10000 \/ s.y > 10000
        THEN IF r1 < 50
             THEN [moved EXCEPT !.x = -6000, !.y = -6000 + r2 * 120]
             ELSE [moved EXCEPT !.x = -6000 + r2 * 120, !.y = -6000]
        ELSE moved

\* An update whose boundary test looks at y alone.
StarUpdateYOnly(s, d, r1, r2) ==
    LET moved == [s EXCEPT !.x = @ + s.velocity * d, !.y = @ + s.velocity * d]
    IN  IF moved.y > 10000
        THEN IF r1 < 50
             THEN [moved EXCEPT !.x = -6000, !.y = -6000 + r2 * 120]
             ELSE [moved EXCEPT !.x = -6000 + r2 * 120, !.y = -6000]
        ELSE moved

\* An update that wraps a star past the bounds but never advances one.
StarUpdateNoMove(s, d, r1, r2) ==
    IF s.x > 10000 \/ s.y > 10000
    THEN IF r1 < 50
         THEN [s EXCEPT !.x = -6000, !.y = -6000 + r2 * 120]
         ELSE [s EXCEPT !.x = -6000 + r2 * 120, !.y = -6000]
    ELSE s

\* Star.update(dt) with the two draws it makes when the star leaves the bounds.
StarUpdate(s, d, r1, r2) ==
    LET moved == [s EXCEPT !.x = @ + s.velocity * d, !.y = @ + s.velocity * d]
    IN  IF moved.x > 10000 \/ moved.y > 10000
        THEN IF r1 < 50
             THEN [moved EXCEPT !.x = -6000, !.y = -6000 + r2 * 120]
             ELSE [moved EXCEPT !.x = -6000 + r2 * 120, !.y = -6000]
        ELSE moved

StarColor ==
    IF variant = "continuous" THEN vec4(900, 850, 750, 1000) ELSE vec4(1000, 1000, 1000, 1000)

\* A draw without the closing gPop.
StarDrawNoPop(s) ==
    << Push, Tr(s.x, s.y, -10000), Color(StarColor), Sc(s.scale, s.scale, s.scale), Sphere >>

\* Star.draw
StarDraw(s) ==
    << Push, Tr(s.x, s.y, -10000), Color(StarColor), Sc(s.scale, s.scale, s.scale), Sphere,
       Pop >>

RECURSIVE EachStarDraw(_, _)
\* stars.forEach(star => star.draw()), from star i on
EachStarDraw(ss, i) ==
    IF i > Len(ss) THEN <<>> ELSE StarDraw(ss[i]) \o EachStarDraw(ss, i + 1)

\* drawStars() with the eye render has set
drawStars(ss, e) ==
    IF variant = "continuous"
    THEN << Push, Tr(e[1], e[2], e[3]) >> \o EachStarDraw(ss, 1) \o << Pop >>
    ELSE EachStarDraw(ss, 1)

\* An update loop that stops one star short.
updateStarsButLast(ss, d) ==
    { [i \in 1..Len(ss) |->
           IF i = Len(ss) THEN ss[i] ELSE StarUpdate(ss[i], d, r[i][1], r[i][2])] :
          r \in [1..Len(ss) -> Draws \X Draws] }

\* updateStars(dt): every outcome of the draws the updates make.
updateStars(ss, d) ==
    { [i \in 1..Len(ss) |-> StarUpdate(ss[i], d, r[i][1], r[i][2])] :
          r \in [1..Len(ss) -> Draws \X Draws] }

---------------------------------------------------------------------------
(* Ballerina. *)

\* new Ballerina([0, 0, 0], 1.0)
NewBallerina ==
    IF variant = "continuous"
    THEN [position |-> <<0, 0, 0>>, basePosition |-> <<0, 0, 0>>, scale |-> 1000,
          time |-> 0, rotationAngle |-> -35000, rotationSpeed |-> 0]
    ELSE [position |-> <<0, 0, 0>>, scale |-> 1000, time |-> 0, phase |-> 0,
          legRotation |-> 0]

\* An update with the pirouette enabled at half a turn per second.
BallerinaUpdateSpin(b, d) ==
    IF variant = "continuous"
    THEN [b EXCEPT !.time = @ + d, !.rotationAngle = @ + 180000 * d]
    ELSE LET t == b.time + d
         IN  IF t > 2
             THEN [b EXCEPT !.phase = (@ + 1) % 3, !.time = 0]
             ELSE [b EXCEPT !.time = t]

\* An update that carries the time over 2 s into the next phase.
BallerinaUpdateCarry(b, d) ==
    IF variant = "continuous"
    THEN [b EXCEPT !.time = @ + d, !.rotationAngle = @ + 360000 * d * 0]
    ELSE LET t == b.time + d
         IN  IF t > 2
             THEN [b EXCEPT !.phase = (@ + 1) % 3, !.time = t - 2]
             ELSE [b EXCEPT !.time = t]

\* Ballerina.update(dt); time is in seconds.
BallerinaUpdate(b, d) ==
    IF variant = "continuous"
    THEN [b EXCEPT !.time = @ + d, !.rotationAngle = @ + 360000 * d * 0]
    ELSE LET t == b.time + d
         IN  IF t > 2
             THEN [b EXCEPT !.phase = (@ + 1) % 3, !.time = 0]
             ELSE [b EXCEPT !.time = t]

Skin == vec4(1000, 800, 600, 1000)

Hair == vec4(400, 200, 100, 1000)

Lilac == vec4(700, 500, 900, 1000)

Pink == vec4(1000, 710, 760, 1000)

\* Math.sin(this.time * 2) and Math.cos(this.time * 2)
SwingSin(b) == Sin(b.time * 2000)

SwingCos(b) == Cos(b.time * 2000)

drawHead(b) ==
    << Push, Color(Skin), Tr(0, Mul(1300, b.scale), 30),
       Sc(Mul(350, b.scale), Mul(360, b.scale), Mul(350, b.scale)), Sphere, Pop,
       Push, Color(Skin), Tr(0, Mul(800, b.scale), 0),
       Sc(Mul(500, b.scale), Mul(500, b.scale), Mul(300, b.scale)),
       Ro(-90000, 1, 0, 0), Cone, Pop,
       Push, Color(Hair), Tr(0, Mul(1300, b.scale), 0),
       Sc(Mul(350, b.scale), Mul(350, b.scale), Mul(350, b.scale)), Sphere, Pop,
       Push, Color(Hair), Tr(0, Mul(1600, b.scale), Mul(-60, b.scale)),
       Sc(Mul(300, b.scale), Mul(300, b.scale), Mul(300, b.scale)), Sphere, Pop,
       Push, Color(Lilac), Tr(0, Mul(1500, b.scale), Mul(200, b.scale)),
       Sc(Mul(250, b.scale), Mul(100, b.scale), Mul(40, b.scale)), Cube, Pop >>

drawBody(b) ==
    << Push, Color(Lilac), Tr(0, Mul(100, b.scale), 0), Ro(90000, 1, 0, 0),
       Sc(Mul(500, b.scale), Mul(400, b.scale), Mul(1000, b.scale)), Cone, Pop,
       Push, Color(Lilac), Tr(50, Mul(-450, b.scale), 0), Ro(-90000, 1, 0, 0),
       Sc(Mul(1750, b.scale), Mul(1750, b.scale), Mul(1000, b.scale)), Cone, Pop >>

LeftArm(b) ==
    << Push, Color(Skin), Tr(-Mul(800, b.scale), Mul(200, b.scale), 0),
       Ro(-45000, 0, 0, 1), Ro(12 * SwingSin(b), 1, 0, 0),
       Sc(Mul(60, b.scale), Mul(600, b.scale), Mul(130, b.scale)), Cube, Pop >>

\* A right arm that swings with the left one.
RightArmInPhase(b) ==
    << Push, Color(Skin), Tr(Mul(800, b.scale), Mul(200, b.scale), 0),
       Ro(45000, 0, 0, 1), Ro(12 * SwingSin(b), 1, 0, 0),
       Sc(Mul(60, b.scale), Mul(600, b.scale), Mul(130, b.scale)), Cube, Pop >>

RightArm(b) ==
    << Push, Color(Skin), Tr(Mul(800, b.scale), Mul(200, b.scale), 0),
       Ro(45000, 0, 0, 1), Ro(-12 * SwingSin(b), 1, 0, 0),
       Sc(Mul(60, b.scale), Mul(600, b.scale), Mul(130, b.scale)), Cube, Pop >>

drawArms(b) == LeftArm(b) \o RightArm(b)

legLength(b) == Mul(500, b.scale)

hipBend(b) == -10 * SwingSin(b)

hipBendL(b) == -10 * SwingSin(b)

kneeBendL(b) == -3 * Max(10000, 25 * SwingSin(b))

kneeBendR(b) == -3 * Max(10000, 25 * SwingCos(b))

\* The boot, drawn inside the shin's scope.
Boot(b) ==
    << Push, Color(Pink), Tr(0, -legLength(b) - 500, Mul(60, b.scale) + 1000),
       Sc(1000, 200, 500), Cube, Pop >>

\* A left leg whose hip scope is never closed.
LeftLegOpen(b) ==
    << Color(Skin),
       Push, Tr(Mul(-250, b.scale), Mul(-1400, b.scale), -100), Ro(0, -10, 0, 1),
       Ro(hipBendL(b) - 1000, -1, 0, 0),
       Sc(Mul(150, b.scale), legLength(b), Mul(120, b.scale)), Cube,
       Push, Tr(0, -legLength(b) - 1000, -100), Ro(0, -15, 0, 1),
       Ro(-kneeBendL(b), 1, 0, 0), Sc(1000, 1300, 750), Cube >>
    \o Boot(b) \o << Pop >>

LeftLeg(b) ==
    << Color(Skin),
       Push, Tr(Mul(-250, b.scale), Mul(-1400, b.scale), -100), Ro(0, -10, 0, 1),
       Ro(hipBendL(b) - 1000, -1, 0, 0),
       Sc(Mul(150, b.scale), legLength(b), Mul(120, b.scale)), Cube,
       Push, Tr(0, -legLength(b) - 1000, -100), Ro(0, -15, 0, 1),
       Ro(-kneeBendL(b), 1, 0, 0), Sc(1000, 1300, 750), Cube >>
    \o Boot(b) \o << Pop, Pop >>

RightLeg(b) ==
    << Color(Skin),
       Push, Tr(Mul(200, b.scale), Mul(-1400, b.scale), -200), Ro(-1000, -10, 0, 0),
       Ro(-hipBend(b), 1, 0, 0),
       Sc(Mul(150, b.scale), legLength(b), Mul(120, b.scale)), Cube,
       Push, Tr(0, -legLength(b) - 1000, -100), Ro(0, 15, 0, 1),
       Ro(-kneeBendR(b), 1, 0, 0), Sc(1000, 1300, 750), Cube >>
    \o Boot(b) \o << Pop, Pop >>

\* drawLegs of the phase variant: one cube.
PhaseLegs(b) ==
    << Push, Color(vec4(1000, 800, 800, 1000)), Tr(0, -1200, 0),
       Ro(b.legRotation, 1, 0, 0), Sc(200, 1000, 200), Cube, Pop >>

drawLegs(b) ==
    IF variant = "continuous" THEN LeftLeg(b) \o RightLeg(b) ELSE PhaseLegs(b)

\* The calls of Ballerina.render before its first child.
RootOpen(b) ==
    IF variant = "continuous"
    THEN << Push, Tr(b.position[1], b.position[2], b.position[3]),
            Ro(b.rotationAngle, 0, 1, 0) >>
    ELSE << Push, Tr(b.position[1], b.position[2], b.position[3]),
            Sc(b.scale, b.scale, b.scale) >>

\* Ballerina.render
BallerinaRender(b) ==
    IF variant = "continuous"
    THEN RootOpen(b) \o drawHead(b) \o drawBody(b) \o drawArms(b) \o drawLegs(b) \o << Pop >>
    ELSE RootOpen(b) \o drawLegs(b) \o << Pop >>

\* updateCamera(dt): cameraAngle += dt * 0.5, and the eye it gives.
CameraEye(angle) == vec3(20 * Sin(angle), 3000, 20 * Cos(angle))

---------------------------------------------------------------------------
(* render(timestamp).  The globals render works on are gathered in one     *)
(* record; each statement group maps it to the next.  An uncaught          *)
(* exception ends render: the statements after it do not run.              *)

W == [g |-> G, eye |-> eye, cameraAngle |-> cameraAngle, stars |-> stars,
      ballerina |-> ballerina, dt |-> dt, prevTime |-> prevTime, requests |-> 0]

\* A render that sets the view and leaves MS and modelMatrix as the last frame left them.
RenderBeginNoReset(w) ==
    LET e == vec3(0, 0, 10000)
    IN  [w EXCEPT !.eye = e, !.g = Exec([w.g EXCEPT !.log = <<>>], Camera(e))]

\* gl.clear(...); eye = vec3(0, 0, 10); MS = []; modelMatrix = mat4();
\* viewMatrix = lookAt(eye, at, up); projectionMatrix = ortho(...); setAllMatrices();
RenderBegin(w) ==
    LET e == vec3(0, 0, 10000)
    IN  [w EXCEPT !.eye = e, !.g = Exec([w.g EXCEPT !.log = <<>>], Reset(e))]

\* if (animFlag) { dt = (timestamp - prevTime) / 1000.0; prevTime = timestamp; }
RenderDt(w, ts) ==
    IF w.g.thrown THEN w
    ELSE IF animFlag
         THEN [w EXCEPT !.dt = (ts - w.prevTime) \div 1000, !.prevTime = ts]
         ELSE w

\* updateStars(dt); drawStars();  ss is the outcome of the update.
RenderStars(w, ss) ==
    IF w.g.thrown THEN w
    ELSE [w EXCEPT !.stars = ss, !.g = Run(w.g, drawStars(ss, w.eye))]

\* updateCamera(dt); viewMatrix = lookAt(eye, at, up); ...; setAllMatrices();
\* The phase variant has no camera step.
RenderCamera(w) ==
    IF w.g.thrown \/ variant # "continuous" THEN w
    ELSE LET angle == w.cameraAngle + w.dt * 500
         IN  [w EXCEPT !.cameraAngle = angle,
                       !.eye = CameraEye(angle),
                       !.g = Exec(w.g, Camera(CameraEye(angle)))]

\* A figure whose clock takes a step more whenever the first star is on the left edge.
RenderBallerinaJitter(w) ==
    IF w.g.thrown THEN w
    ELSE LET b == BallerinaUpdate(w.ballerina,
                                  w.dt + (IF w.stars[1].x = -6000 THEN 1 ELSE 0))
         IN  [w EXCEPT !.ballerina = b, !.g = Run(w.g, BallerinaRender(b))]

\* ballerina.update(dt); ballerina.render();
RenderBallerina(w) ==
    IF w.g.thrown THEN w
    ELSE LET b == BallerinaUpdate(w.ballerina, w.dt)
         IN  [w EXCEPT !.ballerina = b, !.g = Run(w.g, BallerinaRender(b))]

\* A render that asks for the next frame whatever animFlag is.
RenderRequestAlways(w) ==
    IF w.g.thrown THEN w ELSE [w EXCEPT !.requests = @ + 1]

\* A render that asks for the next frame whenever the toggle has ever been switched on.
RenderRequestOnTimerFlag(w) ==
    IF w.g.thrown THEN w
    ELSE IF resetTimerFlag THEN [w EXCEPT !.requests = @ + 1] ELSE w

\* if (animFlag) window.requestAnimFrame(render);
RenderRequest(w) ==
    IF w.g.thrown THEN w
    ELSE IF animFlag THEN [w EXCEPT !.requests = @ + 1] ELSE w

\* The globals after the statements of render(ts) that follow updateStars(dt), whose
\* outcome is ss.
RenderFrom(w1, ss) == RenderRequest(RenderBallerina(RenderCamera(RenderStars(w1, ss))))

\* The whole of render(ts), for each outcome of the random draws.
render(ts) ==
    \E w1 \in {RenderDt(RenderBegin(W), ts)} :
        \E ss \in updateStars(w1.stars, w1.dt) :
            \E w \in {RenderFrom(w1, ss)} :
                /\ SetG(w.g)
                /\ eye' = w.eye
                /\ cameraAngle' = w.cameraAngle
                /\ stars' = w.stars
                /\ ballerina' = w.ballerina
                /\ dt' = w.dt
                /\ prevTime' = w.prevTime
                /\ queue' = queue + w.requests

---------------------------------------------------------------------------
(* The state after the scripts have been evaluated, before window.onload. *)

Undefined == <<"undefined">>

\* new Star(), for the outcomes tried.
StarStates == {StarReset(r[1], r[2], r[3], r[4]) : r \in ResetDraws}

\* The globals other than the star pool.
ScriptGlobals ==
    /\ variant \in {"continuous", "phase"}
    /\ loaded = FALSE
    /\ now = 0
    /\ queue = 0
    /\ batch = 0
    /\ animFlag = FALSE
    /\ resetTimerFlag = TRUE
    /\ prevTime = 0
    /\ dt = 0
    /\ MS = <<>>
    /\ modelMatrix = 0
    /\ heap = <<>>
    /\ thrown = FALSE
    /\ eye = Undefined
    /\ viewMatrix = Undefined
    /\ modelViewMatrix = Undefined
    /\ diffuseProduct = Undefined
    /\ cameraAngle = 0
    /\ ballerina = NewBallerina
    /\ log = <<>>
    /\ saved = <<>>
    /\ lastCall = "none"
    /\ lastArg = <<>>
    /\ twin = NewBallerina
    /\ elapsed = <<0, 0>>
    /\ onTime = 0

Init ==
    /\ ScriptGlobals
    /\ stars \in [1..NumStars -> StarStates]

---------------------------------------------------------------------------
(* The platform: page load, display refreshes, the toggle button.  Event   *)
(* handlers and frame callbacks run to completion, one at a time.          *)

\* window.onload = init: sets up the backend, installs the click handler, calls render(0).
OnLoad ==
    /\ ~loaded
    /\ loaded' = TRUE
    /\ render(0)
    /\ UNCHANGED <<variant, now, batch, animFlag, resetTimerFlag, histVars>>

\* A display refresh gap seconds after the last one: the requests made so far
\* become the callbacks of this refresh.
Refresh(gap) ==
    /\ loaded
    /\ batch = 0
    /\ now + gap * 1000 <= MaxSeconds * 1000
    /\ now' = now + gap * 1000
    /\ batch' = queue
    /\ queue' = 0
    /\ UNCHANGED <<variant, loaded, timeVars, gfxVars, entityVars, histVars>>

\* The platform invokes one requested callback with the time of the refresh.
Frame ==
    /\ batch > 0
    /\ batch' = batch - 1
    /\ render(now)
    /\ UNCHANGED <<variant, loaded, now, animFlag, resetTimerFlag, histVars>>

\* animToggleButton.onclick
Click ==
    /\ loaded
    /\ batch = 0
    /\ animFlag \/ queue < MaxQueue
    /\ IF animFlag
       THEN /\ animFlag' = FALSE
            /\ UNCHANGED <<resetTimerFlag, queue, onTime>>
       ELSE /\ animFlag' = TRUE
            /\ resetTimerFlag' = TRUE
            /\ queue' = queue + 1
            /\ onTime' = now
    /\ UNCHANGED <<variant, loaded, now, batch, prevTime, dt, gfxVars, entityVars, saved,
                   lastCall, harnessVars>>

Next ==
    \/ OnLoad
    \/ \E gap \in Gaps : Refresh(gap)
    \/ Frame
    \/ Click

Spec == Init /\ [][Next]_vars

\* A callback of the current refresh is invoked: the step Frame makes, seen on the
\* count of callbacks alone (no other step lowers batch, and Frame can run
\* whenever batch > 0).
CallbackServed == batch > 0 /\ batch' = batch - 1

\* The platform invokes every callback of a refresh: a run does not stop with
\* callbacks of the current refresh left uncalled.  Nothing obliges the page to
\* be loaded, the display to refresh again or the user to click.
SpecLive == Init /\ [][Next]_vars /\ WF_batch(CallbackServed)

---------------------------------------------------------------------------
(* The transform stack on its own: a harness that makes the calls of       *)
(* main.js in any order, starting from the evaluated scripts.  saved       *)
(* remembers, for each entry of MS, the current matrix and the stack       *)
(* contents at the moment of its push.                                     *)

Translations == {<<1000, 0, 0>>}

Rotations == {<<90000, 0, 0, 1>>}

Scalings == {<<2000, 2000, 2000>>}

\* The harness stops transforming a matrix that has MaxLen factors.
CanGrow == IF modelMatrix = 0 THEN TRUE ELSE Len(heap[modelMatrix]) < MaxLen

ApiReset ==
    /\ ~thrown
    /\ SetG(ResetStack(G))
    /\ saved' = <<>>
    /\ lastCall' = "reset"
    /\ UNCHANGED <<variant, schedVars, timeVars, entityVars, onTime, harnessVars>>

ApiPush ==
    /\ ~thrown
    /\ Len(MS) < MaxDepth
    /\ SetG(gPush(G))
    /\ saved' = Append(saved, [m |-> Value(G, modelMatrix), ms |-> Values(G)])
    /\ lastCall' = "gPush"
    /\ UNCHANGED <<variant, schedVars, timeVars, entityVars, onTime, harnessVars>>

ApiPop ==
    /\ ~thrown
    /\ SetG(gPop(G))
    /\ saved' = IF saved = <<>> THEN saved ELSE Front(saved)
    /\ lastCall' = "gPop"
    /\ UNCHANGED <<variant, schedVars, timeVars, entityVars, onTime, harnessVars>>

ApiTranslate ==
    /\ ~thrown
    /\ CanGrow
    /\ \E v \in Translations : SetG(gTranslate(G, v[1], v[2], v[3]))
    /\ lastCall' = "gTranslate"
    /\ UNCHANGED <<variant, schedVars, timeVars, entityVars, saved, onTime, harnessVars>>

ApiRotate ==
    /\ ~thrown
    /\ CanGrow
    /\ \E v \in Rotations : SetG(gRotate(G, v[1], v[2], v[3], v[4]))
    /\ lastCall' = "gRotate"
    /\ UNCHANGED <<variant, schedVars, timeVars, entityVars, saved, onTime, harnessVars>>

ApiScale ==
    /\ ~thrown
    /\ CanGrow
    /\ \E v \in Scalings : SetG(gScale(G, v[1], v[2], v[3]))
    /\ lastCall' = "gScale"
    /\ UNCHANGED <<variant, schedVars, timeVars, entityVars, saved, onTime, harnessVars>>

NextStack ==
    \/ ApiReset
    \/ ApiPush
    \/ ApiPop
    \/ ApiTranslate
    \/ ApiRotate
    \/ ApiScale

SpecStack == Init /\ [][NextStack]_vars

---------------------------------------------------------------------------
(* A star on its own: a harness that makes one call of Star.update or      *)
(* Star.reset on a star of the pool.  lastArg remembers the star called,   *)
(* the dt passed and the star as the call found it.                        *)

\* Positions a star can have between two frames, boundary values included.
StarPositions ==
    {<<-6000, 0>>, <<0, 0>>, <<9400, 0>>, <<0, 9400>>, <<9400, 9400>>, <<10000, 0>>,
     <<5880, -6000>>}

StarInputs ==
    {[x |-> p[1], y |-> p[2], velocity |-> v, scale |-> 20] :
         p \in StarPositions, v \in {600, 698}}

\* Values of dt passed to Star.update, in seconds.
StarDts == {0, 1, 2}

\* Outcomes tried for each draw of Star.reset, in hundredths.
ResetOutcomes == {0, 50, 99}

InitStar ==
    /\ ScriptGlobals
    /\ stars \in [1..NumStars -> StarInputs \cup StarStates]

\* stars[i].update(d)
StarUpdateCall(i, d) ==
    /\ lastCall = "none"
    /\ \E r1 \in Draws, r2 \in Draws :
           stars' = [stars EXCEPT ![i] = StarUpdate(stars[i], d, r1, r2)]
    /\ lastCall' = "update"
    /\ lastArg' = <<i, d, stars[i]>>
    /\ UNCHANGED <<variant, schedVars, timeVars, gfxVars, eye, cameraAngle, ballerina,
                   saved, onTime, twin, elapsed>>

\* stars[i].reset()
StarResetCall(i) ==
    /\ lastCall = "none"
    /\ \E r1 \in ResetOutcomes, r2 \in ResetOutcomes, r3 \in ResetOutcomes,
          r4 \in ResetOutcomes :
           stars' = [stars EXCEPT ![i] = StarReset(r1, r2, r3, r4)]
    /\ lastCall' = "reset"
    /\ lastArg' = <<i, 0, stars[i]>>
    /\ UNCHANGED <<variant, schedVars, timeVars, gfxVars, eye, cameraAngle, ballerina,
                   saved, onTime, twin, elapsed>>

NextStar ==
    \E i \in 1..NumStars :
        \/ \E d \in StarDts : StarUpdateCall(i, d)
        \/ StarResetCall(i)

SpecStar == InitStar /\ [][NextStar]_vars

---------------------------------------------------------------------------
(* The figure clock of the phase variant on its own: a harness that gives  *)
(* two figures, ballerina and twin, sequences of Ballerina.update(dt)      *)
(* calls; elapsed adds up the dt each of the two has been given.           *)

\* Values of dt passed to Ballerina.update, in seconds.
PhaseDts == {0, 1, 2, 3}

InitPhase ==
    /\ Init
    /\ variant = "phase"

\* ballerina.update(d)
UpdateCall(d) ==
    /\ elapsed[1] + d <= MaxElapsed
    /\ ballerina' = BallerinaUpdate(ballerina, d)
    /\ elapsed' = [elapsed EXCEPT ![1] = @ + d]
    /\ lastCall' = "Ballerina.update"
    /\ UNCHANGED <<variant, schedVars, timeVars, gfxVars, eye, cameraAngle, stars,
                   saved, onTime, lastArg, twin>>

\* twin.update(d)
TwinUpdateCall(d) ==
    /\ elapsed[2] + d <= MaxElapsed
    /\ twin' = BallerinaUpdate(twin, d)
    /\ elapsed' = [elapsed EXCEPT ![2] = @ + d]
    /\ lastCall' = "Ballerina.update"
    /\ UNCHANGED <<variant, schedVars, timeVars, gfxVars, entityVars,
                   saved, onTime, lastArg>>

NextPhase ==
    \E d \in PhaseDts :
        \/ UpdateCall(d)
        \/ TwinUpdateCall(d)

SpecPhase == InitPhase /\ [][NextPhase]_vars

---------------------------------------------------------------------------
(* Properties of the matrix stack. *)

\* The entries of the last render's log whose call is op.
Calls(op) == {i \in 1..Len(log) : log[i].call.op = op}

\* C1: in both variants every gPush a render makes is matched by exactly one gPop: no
\* gPop of a render finds MS empty, no render ends in an exception, and when render
\* returns the depth of MS is 0, the depth right after the per-frame reset.
StackBalanced ==
    /\ ~thrown
    /\ MS = <<>>
    /\ \A i \in Calls("gPop") : log[i].depth > 0
    /\ Cardinality(Calls("gPush")) = Cardinality(Calls("gPop"))
    /\ Len(log) > 1 => log[2].depth = 0

\* An animated frame of the hierarchical figure has been drawn, with stars moved.
StackBalancedWitness ==
    /\ variant = "continuous"
    /\ animFlag
    /\ dt > 0
    /\ ballerina.time > 0
    /\ Cardinality(Calls("gPop")) > NumStars + 1

\* C2: a gPop that finds an entry on MS leaves modelMatrix equal in value to the
\* matrix that was current at the matching gPush, and MS as it was just before that
\* gPush, whatever transforms and balanced pairs came in between.
PushPopRoundTrip ==
    [][(lastCall' = "gPop" /\ MS # <<>>) =>
           /\ Value(G, modelMatrix)' = saved[Len(saved)].m
           /\ Values(G)' = saved[Len(saved)].ms]_vars

\* A gPop has just closed a nested pair and brought back a matrix with factors, after
\* the current matrix had grown past it.
RoundTripWitness ==
    /\ lastCall = "gPop"
    /\ Len(MS) = 1
    /\ modelMatrix # 0
    /\ modelMatrix # MS[1]
    /\ heap[modelMatrix] # mat4
    /\ Len(heap[modelMatrix]) < MaxLen

\* C3: a matrix saved on MS keeps the value it had when it was pushed: transforms
\* applied after the gPush change the current matrix only.
SavedMatricesIsolated ==
    /\ Len(saved) = Len(MS)
    /\ \A i \in 1..Len(MS) : Value(G, MS[i]) = saved[i].m

\* A transform has been applied to the current matrix while a copy is saved.
IsolatedWitness ==
    /\ lastCall \in {"gTranslate", "gRotate", "gScale"}
    /\ MS # <<>>
    /\ modelMatrix # 0
    /\ ~thrown
    /\ Value(G, modelMatrix) # Value(G, MS[Len(MS)])

\* C4: a gPop called while MS is empty raises an error and leaves modelMatrix as it
\* was; a gPop called while MS is not empty makes the popped matrix current.
PopOnEmptyFailsFast ==
    [][lastCall' = "gPop" =>
           IF MS = <<>>
           THEN thrown' /\ modelMatrix' = modelMatrix
           ELSE modelMatrix' = MS[Len(MS)] /\ ~thrown']_vars

---------------------------------------------------------------------------
(* Properties of the frame driver. *)

\* A step in which render ran: the call at page load, or a requested callback.
FrameRan == (~loaded /\ loaded') \/ batch' = batch - 1

\* C5: each frame makes the reset exactly once, as its first step; the first call an
\* entity makes finds MS empty and the identity as model matrix, so nothing of the
\* previous frame's stack or matrix is seen.
PerFrameReset ==
    /\ loaded <=> Len(log) > 0
    /\ Len(log) > 0 => /\ log[1].call.op = "reset"
                       /\ Calls("reset") = {1}
                       /\ Len(log) > 1
                       /\ log[2].depth = 0
                       /\ log[2].model = <<"mat4", mat4>>

\* A frame has been drawn after an earlier animated frame.
PerFrameResetWitness ==
    /\ loaded
    /\ prevTime > 0
    /\ now > prevTime
    /\ batch = 0
    /\ ~animFlag
    /\ queue = 0
    /\ Len(log) > 1

\* The place of each child of Ballerina.render among the calls of the hierarchical
\* figure: head, body, arms, the gPush of the left leg, the gPush of the right leg.
HeadAt(b) == Len(RootOpen(b)) + 1

BodyAt(b) == HeadAt(b) + Len(drawHead(b))

ArmsAt(b) == BodyAt(b) + Len(drawBody(b))

LeftLegAt(b) == ArmsAt(b) + Len(drawArms(b)) + 1

RightLegAt(b) == ArmsAt(b) + Len(drawArms(b)) + Len(LeftLeg(b)) + 1

\* The matrix Ballerina.render builds before its first child.
RootMatrix(b) ==
    <<"mat4", mult(mult(mat4, translate(b.position)), rotate(b.rotationAngle, <<0, 1, 0>>))>>

\* C6: in the hierarchical figure each child of the root starts from the root
\* matrix: the head, the body, the arms and both legs find the model matrix that was
\* current when the left leg began, with one entry on MS; transforms made for a
\* sibling never reach the next one.
SiblingIndependence ==
    (variant = "continuous" /\ loaded /\ ~thrown) =>
        LET base == Len(log) - Len(BallerinaRender(ballerina))
            starts == {HeadAt(ballerina), BodyAt(ballerina), ArmsAt(ballerina),
                       LeftLegAt(ballerina), RightLegAt(ballerina)}
        IN  /\ base > 0
            /\ \A k \in starts : /\ log[base + k].call = Push
                                 /\ log[base + k].depth = 1
                                 /\ log[base + k].model = RootMatrix(ballerina)
            /\ log[base + RightLegAt(ballerina)].model
                   = log[base + LeftLegAt(ballerina)].model
            /\ \A i \in (base + HeadAt(ballerina))..Len(log) :
                   log[i].depth = 1 => log[i].model = RootMatrix(ballerina)

\* The figure has been drawn with its legs bent by the swing.
SiblingWitness ==
    /\ variant = "continuous"
    /\ loaded
    /\ ballerina.time > 0
    /\ hipBend(ballerina) # 0
    /\ log[Len(log) - Len(BallerinaRender(ballerina)) + RightLegAt(ballerina)].call = Push

\* C7: a frame that runs while animFlag is false uses dt = 0: the stars, the figure
\* and the camera angle are after the frame what they were before it.
AnimationFreeze ==
    [][(FrameRan /\ ~animFlag) =>
           /\ dt' = 0
           /\ stars' = stars
           /\ ballerina' = ballerina
           /\ cameraAngle' = cameraAngle]_vars

\* C8: the dt of a frame that runs while animFlag is true covers no time before the
\* click that turned the animation on.
ResumeWithoutSpike ==
    [][(FrameRan /\ animFlag) => dt' * 1000 <= now - onTime]_vars

\* C9: at most one requested frame callback is outstanding at any time.
SingleFrameLoop == queue + batch <= 1

\* C10: render asks for the next frame exactly when animFlag is true as it finishes;
\* the render of the page load asks for none; the only other request is the one made
\* by the click that turns the animation on.
ConditionalReRequest ==
    [][/\ FrameRan => queue' = queue + (IF animFlag' /\ ~thrown' THEN 1 ELSE 0)
       /\ (~loaded /\ loaded') => queue' = 0
       /\ queue' > queue => FrameRan \/ (~animFlag /\ animFlag')]_vars

\* An animated frame has run at the current refresh and asked for the next one.
ReRequestWitness ==
    /\ animFlag
    /\ prevTime > 0
    /\ prevTime = now
    /\ batch = 0
    /\ queue = 1

---------------------------------------------------------------------------
(* Properties of the starfield. *)

\* Whether a star s given dt d passes the top or the right boundary.
PassesBoundary(s, d) == s.x + s.velocity * d > 10000 \/ s.y + s.velocity * d > 10000

\* C11: Star.update(dt) advances x and y by velocity * dt; a star that is then past
\* x = 10 or y = 10 ends the call on the left edge (x = -6, y in [-6, 6]) or on the
\* bottom edge (y = -6, x in [-6, 6]), and both edges can be the outcome; any other
\* star keeps the advanced position.
StarBoundaryWrap ==
    /\ lastCall = "update" =>
           LET i == lastArg[1]
               d == lastArg[2]
               s == lastArg[3]
               t == stars[i]
           IN  IF PassesBoundary(s, d)
               THEN \/ t.x = -6000 /\ t.y \in -6000..6000
                    \/ t.y = -6000 /\ t.x \in -6000..6000
               ELSE t.x = s.x + s.velocity * d /\ t.y = s.y + s.velocity * d
    /\ lastCall = "none" =>
           \A i \in 1..NumStars, d \in StarDts :
               PassesBoundary(stars[i], d) =>
                   /\ ENABLED (StarUpdateCall(i, d) /\ stars'[i].x = -6000
                                   /\ stars'[i].y # -6000)
                   /\ ENABLED (StarUpdateCall(i, d) /\ stars'[i].y = -6000
                                   /\ stars'[i].x # -6000)

\* A star inside the bounds has been advanced past x = 10 and put on the left edge.
StarWrapWitness ==
    /\ lastCall = "update"
    /\ lastArg[3].x <= 10000
    /\ lastArg[3].y <= 10000
    /\ lastArg[3].x + lastArg[3].velocity * lastArg[2] > 10000
    /\ stars[lastArg[1]].x = -6000
    /\ stars[lastArg[1]].y = 0

\* C12: across all frames each star keeps the velocity and the scale it was created
\* with: Star.update changes neither, whether or not it puts the star on an edge,
\* and nothing after construction calls Star.reset.
VelocityScaleKept ==
    [][\A i \in 1..NumStars : /\ stars'[i].velocity = stars[i].velocity
                              /\ stars'[i].scale = stars[i].scale]_vars

\* A star has been put on an edge by a frame and still has its velocity and scale.
VelocityScaleWitness ==
    /\ loaded
    /\ \E i \in 1..NumStars : /\ stars[i].x = -6000
                              /\ stars[i].y = -6000
                              /\ stars[i].velocity = 698
                              /\ stars[i].scale = 49

\* The ranges of a star that Star.reset has just set.
InResetRanges(s) ==
    /\ s.x \in -6000..6000
    /\ s.y \in -6000..6000
    /\ s.velocity \in 500..700
    /\ s.scale \in 20..50

RECURSIVE NewStars(_, _, _)
\* for (let i = 0; i < numStars; i++) stars.push(new Star()), from i on, where the
\* star constructed in round k makes the draws r[k].
NewStars(pool, i, r) ==
    IF i < numStars
    THEN NewStars(Append(pool, StarReset(r[i][1], r[i][2], r[i][3], r[i][4])), i + 1, r)
    ELSE pool

\* The calls of the last render that place a star (Star.draw translates to z = -10).
StarPlacings(l) ==
    {j \in 1..Len(l) : l[j].call.op = "gTranslate" /\ l[j].call.a[3] = -10000}

\* C14: the pool of stars has a fixed size: the loop that creates it pushes exactly
\* numStars = 50 stars, and no step of the page adds, removes or replaces one; a
\* frame updates each star of the pool exactly once and draws each exactly once, in
\* pool order, and no other step touches the pool.  (The pool of the running page is
\* modelled with NumStars stars.)
FixedStarPool ==
    [][/\ \A r \in ResetDraws :
              Len(NewStars(<<>>, 0, [k \in 0..(numStars - 1) |-> r])) = 50
       /\ DOMAIN stars' = 1..NumStars
       /\ IF FrameRan
          THEN LET first == IF variant = "continuous" THEN 3 ELSE 1
               IN  /\ \A i \in 1..NumStars :
                          \E r1 \in Draws, r2 \in Draws :
                              stars'[i] = StarUpdate(stars[i], dt', r1, r2)
                   /\ \A i \in 1..NumStars :
                          \A k \in 1..Len(StarDraw(stars'[i])) :
                              log'[first + 6 * (i - 1) + k].call = StarDraw(stars'[i])[k]
                   /\ Cardinality(StarPlacings(log')) = NumStars
          ELSE stars' = stars]_vars

\* A frame has put a star of the pool on the bottom edge.
FixedStarPoolWitness ==
    /\ loaded
    /\ Len(stars) = NumStars
    /\ \E i \in 1..NumStars : stars[i].x = 0 /\ stars[i].y = -6000
    /\ Cardinality(StarPlacings(log)) = NumStars

---------------------------------------------------------------------------
(* Properties of the figure. *)

\* C15: in the phase variant the phase is determined by the elapsed time alone: two
\* sequences of Ballerina.update calls whose dt add up to the same total end in the
\* same phase, however the total is split into calls.
PhaseFromElapsedTime ==
    elapsed[1] = elapsed[2] => ballerina.phase = twin.phase

\* The timestamp of the render a step runs: 0 at page load, the refresh time after.
FrameTimestamp == IF loaded THEN now ELSE 0

\* The dt a render uses, from the toggle and the timestamps alone.
FrameDt == IF animFlag THEN (FrameTimestamp - prevTime) \div 1000 ELSE dt

\* C16: the figure has no hidden randomness: after every frame the figure state is
\* Ballerina.update applied to the state before with the dt that the toggle clicks and
\* the frame timestamps give, and the figure's calls are those of Ballerina.render
\* for that state, whatever the random source returns to the stars; no other step
\* changes the figure.  Two runs with the same clicks and timestamps hence agree on
\* the figure after every frame.
FigureDeterministic ==
    [][IF FrameRan
       THEN LET b == BallerinaUpdate(ballerina, FrameDt)
                base == Len(log') - Len(BallerinaRender(b))
            IN  /\ dt' = FrameDt
                /\ prevTime' = IF animFlag THEN FrameTimestamp ELSE prevTime
                /\ ballerina' = b
                /\ base > 0
                /\ \A k \in 1..Len(BallerinaRender(b)) :
                       log'[base + k].call = BallerinaRender(b)[k]
       ELSE ballerina' = ballerina /\ dt' = dt /\ prevTime' = prevTime]_vars

\* A frame has drawn an edge position for a star and has advanced the figure clock.
FigureDeterministicWitness ==
    /\ loaded
    /\ dt > 0
    /\ ballerina.time > 0
    /\ \E i \in 1..NumStars : stars[i].x = -6000 /\ stars[i].y \in {-6000, 0}
    /\ lastCall = "none"

---------------------------------------------------------------------------
(* Properties of the draw helpers. *)

\* The calls of the last render that draw a primitive.
PrimitiveDraws ==
    {i \in 1..Len(log) : log[i].call.op \in {"drawCube", "drawSphere", "drawCone"}}

\* C17: the model-view matrix is never cached: the matrix the shader holds when a
\* primitive is drawn is viewMatrix composed with the model matrix that is current
\* at that draw, because the draw helper calls setMV right before drawing.
ModelViewNeverCached ==
    \A i \in PrimitiveDraws :
        /\ log[i].model # Undefined
        /\ log[i].sent = <<"mv", log[i].view, log[i].model[2]>>

\* The hierarchical figure has been drawn after the camera moved: its draws follow
\* pushes and transforms made since the last setAllMatrices (a boot, four levels deep).
ModelViewWitness ==
    /\ variant = "continuous"
    /\ cameraAngle > 0
    /\ Cardinality(PrimitiveDraws) > NumStars + 10
    /\ \E i \in PrimitiveDraws : log[i].depth = 4 /\ log[i].sent = modelViewMatrix

---------------------------------------------------------------------------
(* Properties of the limbs of the hierarchical figure. *)

\* Where the last render's log has the first call of Ballerina.render, less one.
FigureBase == Len(log) - Len(BallerinaRender(ballerina))

\* The place of the time-driven rotation of each limb among the figure's calls.
LeftHipAt(b) == LeftLegAt(b) + 3

RightHipAt(b) == RightLegAt(b) + 3

LeftShoulderAt(b) == ArmsAt(b) + 4

RightShoulderAt(b) == ArmsAt(b) + Len(LeftArm(b)) + 4

\* The angle of a gRotate call about the x axis, signed for the +x direction.
AboutX(call) ==
    IF call.a[2] > 0 THEN call.a[1] ELSE IF call.a[2] < 0 THEN -call.a[1] ELSE 0

\* The figure at rest: clock 0, where the sine of the swing is 0.
AtRest(b) == [b EXCEPT !.time = 0]

\* The time-driven part of a limb rotation: the rotation less the one made at rest.
LeftHipSwing ==
    AboutX(log[FigureBase + LeftHipAt(ballerina)].call)
        - AboutX(BallerinaRender(AtRest(ballerina))[LeftHipAt(ballerina)])

RightHipSwing ==
    AboutX(log[FigureBase + RightHipAt(ballerina)].call)
        - AboutX(BallerinaRender(AtRest(ballerina))[RightHipAt(ballerina)])

\* C18: in the hierarchical figure the legs swing in anti-phase: the time-driven hip
\* rotations of the left and the right thigh, as signed angles about +x, are opposite.
LegsAntiPhase ==
    (variant = "continuous" /\ loaded) => LeftHipSwing + RightHipSwing = 0

\* C19: in the hierarchical figure the arms swing in anti-phase: the time-driven
\* rotations of the left and the right arm are about the same x axis, the left one
\* is 12 times the sine of twice the figure clock and the right one its negation.
ArmsAntiPhase ==
    (variant = "continuous" /\ loaded) =>
        LET l == log[FigureBase + LeftShoulderAt(ballerina)].call
            r == log[FigureBase + RightShoulderAt(ballerina)].call
        IN  /\ l.op = "gRotate" /\ r.op = "gRotate"
            /\ SubSeq(l.a, 2, 4) = <<1, 0, 0>>
            /\ SubSeq(r.a, 2, 4) = <<1, 0, 0>>
            /\ l.a[1] + r.a[1] = 0
            /\ l.a[1] = 12 * Sin(ballerina.time * 2000)

\* The arms have been drawn away from their rest pose.
ArmsAntiPhaseWitness ==
    /\ variant = "continuous"
    /\ loaded
    /\ ballerina.time > 0
    /\ log[FigureBase + LeftShoulderAt(ballerina)].call.a[1] > 0
    /\ log[FigureBase + RightShoulderAt(ballerina)].call.a[1] < 0

---------------------------------------------------------------------------
(* Properties of the camera. *)

---------------------------------------------------------------------------
(* Properties of the call order within a part. *)

\* The calls Ballerina.render made in the last frame, in order.
FigureCalls == [k \in 1..Len(BallerinaRender(ballerina)) |-> log[FigureBase + k].call]

\* Whether the k-th call of the figure depends on the figure's clock.
TimeDriven(k) ==
    \E t \in 1..MaxSeconds :
        BallerinaRender([ballerina EXCEPT !.time = t])[k]
            # BallerinaRender(AtRest(ballerina))[k]

\* The gPush that opens the part drawn by the k-th call: the last gPush before it.
PartStart(calls, k) == MaxOf({0} \cup {j \in 1..(k - 1) : calls[j].op = "gPush"})

\* The place the order gives to the k-th call; setColor has no place in it.
CallRank(calls, k) ==
    CASE calls[k].op = "gTranslate" -> 1
      [] calls[k].op = "gRotate" -> IF TimeDriven(k) THEN 2 ELSE 3
      [] calls[k].op = "gScale" -> 4
      [] OTHER -> 0

\* C21: in the hierarchical figure, between a part's gPush and its primitive draw
\* the calls come in the order translate, time-driven rotations, fixed-orientation
\* rotations, scale: no rotation after the scale, no fixed rotation before a
\* time-driven one.
PartCallOrder ==
    (variant = "continuous" /\ loaded) =>
        \A d \in {k \in 1..Len(FigureCalls) :
                      FigureCalls[k].op \in {"drawCube", "drawSphere", "drawCone"}} :
            \A i, j \in (PartStart(FigureCalls, d) + 1)..(d - 1) :
                (i < j /\ CallRank(FigureCalls, i) > 0 /\ CallRank(FigureCalls, j) > 0)
                    => CallRank(FigureCalls, i) <= CallRank(FigureCalls, j)

---------------------------------------------------------------------------
(* Properties of the phase variant's pose. *)

\* The figure as it is in phase p with its clock at t.
InPhase(b, p, t) == [b EXCEPT !.phase = p, !.time = t]

\* C22: in the phase variant the pose depends on the phase: there are two phases
\* among 0, 1, 2 for which Ballerina.render emits different transform calls (a
\* different leg rotation angle in particular).
PhasePoseDiffers ==
    (variant = "phase" /\ loaded /\ ballerina.phase # 0) =>
        \E p, q \in 0..2 : \E t, u \in 0..2 :
            BallerinaRender(InPhase(ballerina, p, t))
                # BallerinaRender(InPhase(ballerina, q, u))

---------------------------------------------------------------------------
(* Properties of the disabled loop. *)

\* The frame requests not yet served: those waiting for the next refresh and the
\* callbacks of the current one.
Outstanding == queue + batch

\* C23: the loop stops when disabled.  Once the toggle is off for good, and every
\* waiting request gets its refresh, the run reaches a state with no outstanding
\* request and stays there.  While the toggle stays off no request is added, each
\* frame rendered takes one of the outstanding ones, and with none outstanding the
\* stars, the figure (clock and phase) and the camera angle no longer change.
LoopStopsWhenDisabled ==
    /\ ((queue > 0 ~> batch > 0) /\ <>[](~animFlag)) => <>[](Outstanding = 0)
    /\ [][(loaded /\ ~animFlag /\ ~animFlag') =>
              /\ Outstanding' <= Outstanding
              /\ FrameRan => Outstanding' = Outstanding - 1
              /\ Outstanding = 0 =>
                     /\ Outstanding' = 0
                     /\ UNCHANGED <<stars, ballerina, cameraAngle>>]_vars

\* The toggle was switched on and off again, the frames requested meanwhile have
\* run, and nothing is outstanding.
LoopStoppedWitness ==
    /\ loaded
    /\ resetTimerFlag
    /\ ~animFlag
    /\ Outstanding = 0
    /\ ballerina.time > 0

---------------------------------------------------------------------------
(* The starfield under frames that keep coming.  The animation is enabled   *)
(* and each frame has a later timestamp than the one before, so each frame  *)
(* calls updateStars with a dt above 0.                                     *)

\* Values of dt of successive frames, in seconds.
DriftDts == {2, 4}

InitDrift ==
    /\ ScriptGlobals
    /\ stars \in [1..NumStars -> StarStates]

\* updateStars(d) of one frame; lastArg keeps d and the stars the frame respawned.
Drift(d) ==
    /\ stars' \in updateStars(stars, d)
    /\ lastCall' = "updateStars"
    /\ lastArg' = <<d, {i \in 1..NumStars : PassesBoundary(stars[i], d)}>>
    /\ UNCHANGED <<variant, schedVars, timeVars, gfxVars, eye, cameraAngle, ballerina,
                   saved, onTime, twin, elapsed>>

NextDrift == \E d \in DriftDts : Drift(d)

\* Frames keep being rendered: the loop re-requests itself while enabled.
SpecDrift == InitDrift /\ [][NextDrift]_vars /\ WF_vars(NextDrift)

\* The stars the last frame respawned.
Respawned == IF lastCall = "updateStars" THEN lastArg[2] ELSE {}

\* C24: while frames keep being rendered with increasing timestamps, every star is
\* respawned again and again at the boundary test, and again and again is moved on
\* without a respawn: none drifts forever, none stays at its respawn position.
EveryStarRespawns ==
    \A i \in 1..NumStars :
        /\ []<>(i \in Respawned /\ (stars[i].x = -6000 \/ stars[i].y = -6000))
        /\ []<>(lastCall = "updateStars" /\ i \notin Respawned
                    /\ stars[i].x > -6000 /\ stars[i].y > -6000)

\* A star has gone past the boundary, was respawned on an edge and has since moved
\* on from there.
RespawnWitness ==
    /\ lastCall = "updateStars"
    /\ \E i \in 1..NumStars :
           /\ i \notin Respawned
           /\ stars[i].x - stars[i].velocity * lastArg[1] = -6000
                  \/ stars[i].y - stars[i].velocity * lastArg[1] = -6000
           /\ stars[i] \notin {[s EXCEPT !.x = @ + s.velocity * lastArg[1],
                                         !.y = @ + s.velocity * lastArg[1]] :
                                   s \in StarStates}

---------------------------------------------------------------------------
(* Properties of the star positions. *)

\* The gTranslate calls of the last render that place a star (z = -10).
StarPlacingCalls ==
    {i \in 1..Len(log) : log[i].call.op = "gTranslate" /\ log[i].call.a[3] = -10000}

\* C25: between frames every star has -6 <= x <= 10 and -6 <= y <= 10, whatever
\* the frames, their dt (never negative) and the clicks; no star is drawn at a
\* coordinate above 10.
StarPositionBound ==
    /\ dt >= 0
    /\ \A i \in 1..NumStars :
           /\ stars[i].x \in -6000..10000
           /\ stars[i].y \in -6000..10000
    /\ \A i \in StarPlacingCalls :
           /\ log[i].call.a[1] <= 10000
           /\ log[i].call.a[2] <= 10000

\* A star went past the boundary and was respawned on the left edge; the frame that
\* did it drew it there.
StarBoundWitness ==
    /\ loaded
    /\ dt > 0
    /\ \E i \in 1..NumStars :
           /\ stars[i].x = -6000
           /\ stars[i] \notin StarStates
    /\ \E i \in StarPlacingCalls : log[i].call.a[1] = -6000

---------------------------------------------------------------------------
(* Properties of the phase clock. *)

\* The dt of the update a step makes on the figure.
UpdateDt == elapsed'[1] - elapsed[1]

\* C26: in the phase variant, after every Ballerina.update the phase is 0, 1 or 2
\* and the clock is between 0 and 2; one update leaves the phase as it is or moves
\* it to its cyclic successor, and it sets the clock to 0 exactly when it changes
\* the phase (otherwise the clock has advanced by dt).
PhaseClockInvariant ==
    [][/\ ballerina'.phase \in 0..2
       /\ ballerina'.time \in 0..2
       /\ ballerina'.phase \in {ballerina.phase, (ballerina.phase + 1) % 3}
       /\ elapsed'[2] = elapsed[2] =>
              IF ballerina'.phase # ballerina.phase
              THEN ballerina'.time = 0 /\ ballerina.time + UpdateDt > 2
              ELSE ballerina'.time = ballerina.time + UpdateDt]_vars

\* The figure has gone round the three phases: the last update took it from phase
\* 2 back to phase 0 and set the clock to 0.
PhaseClockWitness ==
    /\ lastCall = "Ballerina.update"
    /\ ballerina.phase = 0
    /\ ballerina.time = 0
    /\ elapsed[1] >= 9

=============================================================================
